---- MODULE Spec2Model ----
(***************************************************************************)
(* The HTTP route cache of patron (package cache: RouteCache, Age, the     *)
(* response capture adapter, Handler and httpExecutor) as a state machine. *)
(*                                                                         *)
(* Time: the cache processor works in whole seconds (now, LastValid, the   *)
(* age bounds).  Configured durations (Age.Min, Age.Max) are counted in    *)
(* ticks, TicksPerSecond ticks to the second, so that the truncating       *)
(* conversion of toAgeInSeconds is visible.                                *)
(*                                                                         *)
(* The cache processor `handler`, hasNoAgeConfig, generateETag and the     *)
(* request parsing are called by the source but are not part of it; they   *)
(* are modelled from the specification (sections 4.2, 4.4, 4.5, 7).        *)
(*                                                                         *)
(* A request goes through Lookup (the request is read, the store looked    *)
(* up, the outcome decided), Exec (the executor runs the wrapped handler   *)
(* against a capture adapter), Save (the store write of a MISS), Respond   *)
(* (Handler copies the response to the client's writer) and Finish.        *)
(*   Spec        requests one after the other, two keys, client            *)
(*               directives, store and sink failures                       *)
(*   SpecEngine  Spec with an executor that can yield an error             *)
(*   SpecConc    two requests for one key in flight at once                *)
(*   SpecCapture a request whose execution is followed call by call: the   *)
(*               wrapped handler's Write, WriteHeader and header calls on  *)
(*               the capture adapter, then the executor's ReadAll          *)
(*                                                                         *)
(* Publisher.Publish of the mqtt client (package mqtt) is a second state   *)
(* machine, over the variable pub alone:                                   *)
(*   SpecPublish Publish calls one after the other, each step of a call    *)
(*               able to fail                                              *)
(*                                                                         *)
(* log.Setup (package log) is a third one, over the variable lg:           *)
(*   SpecLog     goroutines calling Setup at once, step by step through    *)
(*               sync.Once, and readers of the logger                      *)
(***************************************************************************)
EXTENDS Integers, Sequences, FiniteSets, TLC

\* ------------------------------------------------------------------ bounds
MaxDur == 3
MaxTime == 2
MaxDirective == 2
\* calls a wrapped handler makes on the capture adapter in one execution
MaxCalls == 3
\* Publish calls in one behaviour
MaxPublish == 3
\* log.Setup calls in one behaviour
MaxSetup == 3

\* time.Second, in ticks
TicksPerSecond == 2

Keys == {"k1", "k2"}
Reqs == {1, 2}
None == "none"
\* a cache-control directive the request does not carry
NoDirective == -1
ClientAges == {NoDirective} \cup (0 .. MaxDirective)
Durations == 0 .. MaxDur
\* readings of time.Now().Nanosecond(), the sub-second part of the wall clock
Nanos == {0, 1}
\* the request slot and the clock readings of the sequential specifications
SeqReqs == {1}
SeqNanos == {0}

Min2(a, b) == IF a < b THEN a ELSE b
Max2(a, b) == IF a > b THEN a ELSE b

VARIABLES
    built,      \* whether NewRouteCache has been called
    cfgAge,     \* the Age given to NewRouteCache (ticks)
    rc,         \* the *RouteCache returned by NewRouteCache
    errs,       \* the []error returned by NewRouteCache
    warned,     \* whether NewRouteCache logged the disabled-cache warning
    clock,      \* wall clock, seconds
    store,      \* the TTL store: key -> stored item
    lastSet,    \* per key, the request whose set the store holds (0: none)
    req,        \* per in-flight request: the position in Handler and its locals
    dec,        \* the decision the cache processor has just taken
    cap,        \* the capture adapter of the execution in progress, call by call
    pub,        \* the mqtt Publisher: the Publish call in progress, spans, metrics
    lg          \* package log: the global logger, its sync.Once, the Setup calls

cacheVars == <<built, cfgAge, rc, errs, warned, clock, store, lastSet, req, dec>>

vars == <<built, cfgAge, rc, errs, warned, clock, store, lastSet, req, dec, cap, pub, lg>>

\* ---------------------------------------------------------- Age, RouteCache

\* toAgeInSeconds without the division: the raw duration taken for seconds
toAgeInSecondsRaw(a) == [min |-> a.Min, max |-> a.Max]

\* toAgeInSeconds dividing by the wrong unit
toAgeInSecondsMilli(a) ==
    [min |-> a.Min \div (1000 * TicksPerSecond),
     max |-> a.Max \div (1000 * TicksPerSecond)]

\* Age.toAgeInSeconds: integer division of the durations by time.Second
toAgeInSeconds(a) ==
    [min |-> a.Min \div TicksPerSecond, max |-> a.Max \div TicksPerSecond]

\* Duration.Milliseconds(): whole milliseconds of a duration (1 tick is
\* 1000 / TicksPerSecond ms, a whole number)
Milliseconds(d) == d * (1000 \div TicksPerSecond)

\* hasNoAgeConfig(min, max): both bounds are zero
hasNoAgeConfig(min, max) == min = 0 /\ max = 0

ErrNilCache == "route cache is nil"
ErrMinMax == "max age must always be greater than min age"

\* NewRouteCacheErrs returning at the first problem found
NewRouteCacheErrsFirstOnly(ttlCache, a) ==
    IF ttlCache = "nil" THEN <<ErrNilCache>>
    ELSE IF a.Min > a.Max THEN <<ErrMinMax>> ELSE <<>>

\* NewRouteCacheErrs comparing the bounds the wrong way round
NewRouteCacheErrsSwapped(ttlCache, a) ==
    (IF ttlCache = "nil" THEN <<ErrNilCache>> ELSE <<>>)
        \o (IF a.Max > a.Min THEN <<ErrMinMax>> ELSE <<>>)

\* the error list NewRouteCache accumulates
NewRouteCacheErrs(ttlCache, a) ==
    (IF ttlCache = "nil" THEN <<ErrNilCache>> ELSE <<>>)
        \o (IF a.Min > a.Max THEN <<ErrMinMax>> ELSE <<>>)

\* whether NewRouteCache logs the warning
NewRouteCacheWarns(a) == hasNoAgeConfig(Milliseconds(a.Min), Milliseconds(a.Max))

\* the *RouteCache NewRouteCache returns: a pointer to a new value on every
\* path, also when errors were found
NewRouteCacheValue(ttlCache, a) ==
    [isNil |-> FALSE, cache |-> ttlCache, age |-> toAgeInSeconds(a)]

\* ------------------------------------------------- response capture adapter

\* http.Header built by a handler: header key -> list of values
EmptyHeader == <<>>

\* newResponseReadWriter: empty buffer, empty header; len and statusCode are
\* left at Go's zero value
newResponseReadWriter ==
    [buffer |-> <<>>, len |-> 0, header |-> EmptyHeader, statusCode |-> 0]

\* Write recording the length of the chunk without keeping its bytes
WriteDropped(rw, p) == [rw EXCEPT !.len = Len(p)]

\* responseReadWriter.Write: len becomes the length of this chunk, the chunk
\* is appended to the buffer
Write(rw, p) == [rw EXCEPT !.len = Len(p), !.buffer = @ \o p]

\* responseReadWriter.WriteHeader
WriteHeader(rw, statusCode) == [rw EXCEPT !.statusCode = statusCode]

\* responseReadWriter.Header() handed to the handler, which sets header h
SetHeader(rw, h) == [rw EXCEPT !.header = h]

Zeros(n) == [i \in 1 .. n |-> 0]

\* responseReadWriter.Read = bytes.Buffer.Read into a slice of n bytes:
\* io.EOF when the buffer is empty and n > 0, else the first Min(n, Len) bytes
Read(rw, n) ==
    IF rw.buffer = <<>>
    THEN [n |-> 0, data |-> <<>>, err |-> IF n = 0 THEN "nil" ELSE "EOF"]
    ELSE LET m == Min2(n, Len(rw.buffer))
         IN  [n |-> m, data |-> SubSeq(rw.buffer, 1, m), err |-> "nil"]

\* ReadAll reporting io.EOF when nothing is there to read
ReadAllEOF(rw) ==
    IF rw.len = 0
    THEN [b |-> <<>>, err |-> "EOF"]
    ELSE LET r == Read(rw, rw.len)
         IN  [b |-> r.data \o Zeros(rw.len - r.n), err |-> r.err]

\* responseReadWriter.ReadAll: a slice of rw.len bytes filled by one Read
ReadAll(rw) ==
    IF rw.len = 0
    THEN [b |-> <<>>, err |-> "nil"]
    ELSE LET r == Read(rw, rw.len)
         IN  [b |-> r.data \o Zeros(rw.len - r.n), err |-> r.err]

RECURSIVE WriteAll(_, _)
WriteAll(rw, chunks) ==
    IF chunks = <<>> THEN rw
    ELSE WriteAll(Write(rw, Head(chunks)), Tail(chunks))

RECURSIVE WriteHeaderAll(_, _)
WriteHeaderAll(rw, codes) ==
    IF codes = <<>> THEN rw
    ELSE WriteHeaderAll(WriteHeader(rw, Head(codes)), Tail(codes))

\* What a wrapped http.Handler does with the writer it is given: it sets
\* headers, calls WriteHeader for each element of status and Write for each
\* chunk of writes.
HeaderOf(k, vs) == [x \in {k} |-> vs]

Progs ==
    { [writes |-> <<>>,                header |-> EmptyHeader,
       status |-> <<>>],
      [writes |-> << <<1>> >>,         header |-> HeaderOf("h1", <<"x">>),
       status |-> <<200>>],
      [writes |-> << <<1>>, <<2, 3>> >>, header |-> HeaderOf("h1", <<"x", "y">>),
       status |-> <<404>>],
      [writes |-> << <<2>> >>,         header |-> HeaderOf("h2", <<>>),
       status |-> <<>>] }

\* hnd(responseReadWriter, request)
ServeHTTP(prog) ==
    WriteAll(WriteHeaderAll(SetHeader(newResponseReadWriter, prog.header),
                            prog.status), prog.writes)

\* the bytes a handler wrote, in order
RECURSIVE Concat(_)
Concat(chunks) ==
    IF chunks = <<>> THEN <<>> ELSE Head(chunks) \o Concat(Tail(chunks))

\* generateETag(key, t): a fingerprint of the key and the nanosecond reading
generateETag(key, t) == <<key, t>>

NoResponse ==
    [Bytes |-> <<>>, Header |-> EmptyHeader, LastValid |-> 0, Etag |-> <<>>,
     Err |-> "nil"]

\* snapshot stamping every entry with generation time 0
snapshotUnstamped(rw, now, key, nano) ==
    LET payload == ReadAll(rw)
    IN  IF payload.err = "nil"
        THEN [Bytes |-> payload.b, Header |-> rw.header, LastValid |-> 0,
              Etag |-> generateETag(key, nano), Err |-> "nil"]
        ELSE [NoResponse EXCEPT !.Err = payload.err]

\* the executor after the handler returned: ReadAll on the adapter, then the
\* response built from the payload, the adapter's header, now and the ETag,
\* or the response carrying ReadAll's error
snapshot(rw, now, key, nano) ==
    LET payload == ReadAll(rw)
    IN  IF payload.err = "nil"
        THEN [Bytes |-> payload.b, Header |-> rw.header, LastValid |-> now,
              Etag |-> generateETag(key, nano), Err |-> "nil"]
        ELSE [NoResponse EXCEPT !.Err = payload.err]

\* the executor built by httpExecutor, called with (now, key): runs the
\* handler against a fresh capture adapter and snapshots it; nano is the
\* reading of time.Now().Nanosecond()
httpExecutor(prog, now, key, nano) == snapshot(ServeHTTP(prog), now, key, nano)

\* ------------------------------------------------------ cache processor

\* effectiveMaxAge = min(routeMax, clientMaxAge or routeMax), floored at routeMin
effectiveMaxAge(age, maxAge) ==
    Max2(age.min, Min2(age.max, IF maxAge = NoDirective THEN age.max ELSE maxAge))

\* effectiveMinFresh: the client's min-fresh, at most routeMax - routeMin;
\* no constraint when the request carries none
effectiveMinFresh(age, minFresh) ==
    IF minFresh = NoDirective THEN 0 ELSE Min2(minFresh, age.max - age.min)

NoItem == [present |-> FALSE, val |-> NoResponse, ttl |-> 0]

\* the outcome for a request at time now with directives maxAge, minFresh,
\* given what the lookup returned
Decide(age, item, now, maxAge, minFresh) ==
    IF hasNoAgeConfig(age.min, age.max) THEN "BYPASS"
    ELSE IF ~item.present THEN "MISS"
    ELSE LET a == now - item.val.LastValid
             e == effectiveMaxAge(age, maxAge)
         IN  IF a <= e /\ e - a >= effectiveMinFresh(age, minFresh)
             THEN "HIT" ELSE "MISS"

\* set(key, entry, ttl) of the TTL store: the whole item is replaced
StoreSet(st, key, entry, ttl) ==
    [st EXCEPT ![key] = [present |-> TRUE, val |-> entry, ttl |-> ttl]]

\* ------------------------------------------------------------------ Handler

\* http.StatusOK: the status a net/http ResponseWriter sends with the first
\* Write when WriteHeader has not been called on it
StatusOK == 200

\* the client's writer w: Handler calls w.Header().Set and w.Write on it and
\* never w.WriteHeader; status 0: nothing sent yet
NoClient ==
    [header |-> EmptyHeader, body |-> <<>>, written |-> FALSE, status |-> 0]

\* the keys of h that Handler can set: h[0] exists
Settable(h) == {k \in DOMAIN h : h[k] # <<>>}

\* w.Header().Set(k, h[0]) for the keys in ks.  The keys are those of the
\* adapter's http.Header as the wrapped handler filled it through Set or Add,
\* hence in canonical form already: Set finds them as they are
SetFirst(h, ks) == [k \in ks |-> h[k][1]]

\* HandlerWrite without the check of the processor's error
HandlerWriteUnchecked(response, before, sinkOk) ==
    [result |-> "ok",
     client |-> [header |-> SetFirst(response.Header, Settable(response.Header)),
                 body |-> response.Bytes, written |-> TRUE,
                 status |-> StatusOK]]

\* Handler after the cache processor returned (response, err): what the
\* client's writer holds and how Handler ends.  An error is returned before
\* the writer is touched; h[0] panics on an empty value list, after the keys
\* in `before` (those the map iteration visited first) were set; w.Write
\* fails when the sink does (sinkOk = FALSE).
HandlerWrite(response, before, sinkOk) ==
    IF response.Err # "nil"
    THEN [result |-> "error", client |-> NoClient]
    ELSE IF Settable(response.Header) # DOMAIN response.Header
    THEN [result |-> "panic",
          client |-> [NoClient EXCEPT !.header = SetFirst(response.Header, before)]]
    ELSE IF ~sinkOk
    THEN [result |-> "error",
          client |-> [NoClient EXCEPT
                         !.header = SetFirst(response.Header, DOMAIN response.Header)]]
    ELSE [result |-> "ok",
          client |-> [header |-> SetFirst(response.Header, DOMAIN response.Header),
                      body |-> response.Bytes, written |-> TRUE,
                      status |-> StatusOK]]

\* the last element of a non-empty sequence
Last(q) == q[Len(q)]

\* what the wrapped handler did, for comparison with what is served: the bytes
\* it wrote, the header it set, its WriteHeader calls, the number of its
\* Write calls
NoOutput == [body |-> <<>>, header |-> EmptyHeader, codes |-> <<>>, nwrites |-> 0]

OutputOf(prog) ==
    [body |-> Concat(prog.writes), header |-> prog.header,
     codes |-> prog.status, nwrites |-> Len(prog.writes)]

IdleReq ==
    [pc |-> "idle", key |-> None, now |-> 0, outcome |-> None,
     found |-> FALSE, rsp |-> NoResponse, calls |-> 0, sets |-> 0,
     getFault |-> FALSE, setFault |-> FALSE, sinkFault |-> FALSE,
     output |-> NoOutput, result |-> None, client |-> NoClient]

NoDec ==
    [r |-> 0, key |-> None, found |-> FALSE, age |-> 0,
     maxAge |-> NoDirective, minFresh |-> NoDirective, outcome |-> None]

\* the capture adapter followed call by call: the adapter, the Write and
\* WriteHeader calls made on it so far, their number, and what ReadAll
\* reported
NoCap ==
    [pc |-> "none", rw |-> newResponseReadWriter, writes |-> <<>>,
     codes |-> <<>>, n |-> 0, err |-> "nil"]

\* the chunks, status codes and headers a wrapped handler is given to use
Chunks == {<<>>, <<1>>, <<2, 3>>}
StatusCodes == {200, 404}
CapHeaders == {HeaderOf("h1", <<"x", "y">>), HeaderOf("h2", <<>>)}

\* ---------------------------------------------------------- mqtt Publisher

Topics == {"t1", "t2"}

\* strconv.FormatBool
FormatBool(b) == IF b THEN "true" ELSE "false"

\* the Publisher and its surroundings: the position in Publish, the topic of
\* the message, the error Publish returns, the step that failed, how often
\* the span of this call was finished and a duration observed, how often
\* cm.Publish was called for it; the number of Publish calls, the finished
\* spans of the tracer and the observations of publishDurationMetrics
NoPub ==
    [pc |-> "idle", topic |-> None, err |-> "nil", failedAt |-> None,
     finished |-> 0, observed |-> 0, attempts |-> 0,
     calls |-> 0, spans |-> <<>>, hist |-> <<>>]

\* observePublish labelling every observation as a success
observePublishAlwaysTrue(p, err) ==
    [p EXCEPT !.finished = @ + 1,
              !.spans = Append(@, [topic |-> p.topic, error |-> err # "nil"]),
              !.observed = @ + 1,
              !.hist = Append(@, [topic |-> p.topic, success |-> "true"])]

\* observePublish(ctx, span, start, topic, err): the span is completed with
\* err, one duration is observed under the labels (topic, err == nil)
observePublish(p, err) ==
    [p EXCEPT !.finished = @ + 1,
              !.spans = Append(@, [topic |-> p.topic, error |-> err # "nil"]),
              !.observed = @ + 1,
              !.hist = Append(@, [topic |-> p.topic,
                                  success |-> FormatBool(err = "nil")])]

\* the error a step of Publish met
StepErr == "err"

\* a step of Publish failed with StepErr: observePublish, then the wrapped
\* error msg is returned
PublishFails(p, at, msg) ==
    [observePublish(p, StepErr) EXCEPT !.pc = "returned", !.err = msg,
                                       !.failedAt = at]

\* -------------------------------------------------------------- package log

\* the goroutines that call Setup
Procs == {1, 2}

\* logger values: the nil Logger, the &fmtLogger{} the package starts with,
\* and the loggers handed to Setup
NilLogger == "nil"
FmtLogger == "fmtLogger"
Loggers == {"l1", "l2"}

ErrNilLogger == "logger is nil"

\* once.Do running f whatever the state of the Once
onceDoRunsAlways(done) == TRUE

\* sync.Once.Do runs f when done is still 0
onceDoRuns(done) == done = 0

\* a goroutine's call of Setup: its position, its argument, what the call
\* returned
IdleProc == [pc |-> "idle", l |-> NilLogger, ret |-> None]

\* the package variables logger and once (done flag, holder of its mutex, 0:
\* free), the goroutines, the number of calls made; and for the calls with a
\* non-nil logger: the arguments in the order the calls began, whether one
\* began while another call was under way, the arguments of those begun
\* before any had returned, and whether one has returned; what the last
\* reader of the logger got
NoLog ==
    [logger |-> FmtLogger, done |-> 0, m |-> 0,
     proc |-> [g \in Procs |-> IdleProc], calls |-> 0,
     begun |-> <<>>, overlap |-> FALSE, early |-> {}, returned |-> FALSE,
     seen |-> None]

\* ------------------------------------------------------------------ actions

Init ==
    /\ built = FALSE
    /\ cfgAge = [Min |-> 0, Max |-> 0]
    /\ rc = [isNil |-> TRUE, cache |-> "nil", age |-> [min |-> 0, max |-> 0]]
    /\ errs = <<>>
    /\ warned = FALSE
    /\ clock = 0
    /\ store = [k \in Keys |-> NoItem]
    /\ lastSet = [k \in Keys |-> 0]
    /\ req = [r \in Reqs |-> IdleReq]
    /\ dec = NoDec
    /\ cap = NoCap
    /\ pub = NoPub
    /\ lg = NoLog

\* NewRouteCache(ttlCache, age)
NewRouteCache(ttlCache, a) ==
    /\ ~built
    /\ built' = TRUE
    /\ cfgAge' = a
    /\ errs' = NewRouteCacheErrs(ttlCache, a)
    /\ warned' = NewRouteCacheWarns(a)
    /\ rc' = NewRouteCacheValue(ttlCache, a)
    /\ UNCHANGED <<clock, store, lastSet, req, dec, cap, pub, lg>>

\* the route is registered only when construction reported no error
Serving == built /\ errs = <<>>

\* Handler up to the cache processor's decision: the request is parsed, now
\* is read, the store is looked up (a failed get counts as no entry) and the
\* outcome is decided
Lookup(r, key, maxAge, minFresh, getFails) ==
    /\ Serving
    /\ req[r].pc = "idle"
    /\ LET item == IF getFails THEN NoItem ELSE store[key]
           outcome == Decide(rc.age, item, clock, maxAge, minFresh)
       IN  /\ req' = [req EXCEPT ![r] =
                        [IdleReq EXCEPT
                           !.pc = IF outcome = "HIT" THEN "respond" ELSE "exec",
                           !.key = key, !.now = clock, !.outcome = outcome,
                           !.getFault = getFails, !.found = store[key].present,
                           !.rsp = IF outcome = "HIT" THEN item.val ELSE NoResponse]]
           /\ dec' = [r |-> r, key |-> key, found |-> item.present,
                      age |-> IF item.present THEN clock - item.val.LastValid ELSE 0,
                      maxAge |-> maxAge, minFresh |-> minFresh,
                      outcome |-> outcome]
    /\ UNCHANGED <<built, cfgAge, rc, errs, warned, clock, store, lastSet, cap, pub, lg>>

\* Exec running the wrapped handler a second time, against the client's writer
ExecTwice(r, prog, nano) ==
    /\ req[r].pc = "exec"
    /\ LET rsp == httpExecutor(prog, req[r].now, req[r].key, nano)
       IN  req' = [req EXCEPT ![r] =
                     [@ EXCEPT
                        !.pc = IF rsp.Err = "nil" /\ req[r].outcome = "MISS"
                               THEN "save" ELSE "respond",
                        !.rsp = rsp, !.calls = @ + 2,
                        !.output = OutputOf(prog)]]
    /\ dec' = NoDec
    /\ UNCHANGED <<built, cfgAge, rc, errs, warned, clock, store, lastSet, cap, pub, lg>>

\* MISS or BYPASS: the executor runs the wrapped handler
Exec(r, prog, nano) ==
    /\ req[r].pc = "exec"
    /\ LET rsp == httpExecutor(prog, req[r].now, req[r].key, nano)
       IN  req' = [req EXCEPT ![r] =
                     [@ EXCEPT
                        !.pc = IF rsp.Err = "nil" /\ req[r].outcome = "MISS"
                               THEN "save" ELSE "respond",
                        !.rsp = rsp, !.calls = @ + 1,
                        !.output = OutputOf(prog)]]
    /\ dec' = NoDec
    /\ UNCHANGED <<built, cfgAge, rc, errs, warned, clock, store, lastSet, cap, pub, lg>>

\* MISS after a successful execution: set(key, entry, routeMax); a failed set
\* is not reported to the request
Save(r, setFails) ==
    /\ req[r].pc = "save"
    /\ store' = IF setFails THEN store
                ELSE StoreSet(store, req[r].key, req[r].rsp, rc.age.max)
    /\ lastSet' = IF setFails THEN lastSet ELSE [lastSet EXCEPT ![req[r].key] = r]
    /\ req' = [req EXCEPT ![r] =
                 [@ EXCEPT !.pc = "respond", !.setFault = setFails,
                           !.sets = IF setFails THEN @ ELSE @ + 1]]
    /\ dec' = NoDec
    /\ UNCHANGED <<built, cfgAge, rc, errs, warned, clock, cap, pub, lg>>

\* Handler after the cache processor returned
Respond(r, before, sinkOk) ==
    /\ req[r].pc = "respond"
    /\ before \subseteq Settable(req[r].rsp.Header)
    /\ LET h == HandlerWrite(req[r].rsp, before, sinkOk)
       IN  req' = [req EXCEPT ![r] =
                     [@ EXCEPT !.pc = "done", !.result = h.result,
                               !.sinkFault = ~sinkOk, !.client = h.client]]
    /\ dec' = NoDec
    /\ UNCHANGED <<built, cfgAge, rc, errs, warned, clock, store, lastSet, cap, pub, lg>>

\* the request is over; the slot serves the next one
Finish(r) ==
    /\ req[r].pc = "done"
    /\ req' = [req EXCEPT ![r] = IdleReq]
    /\ dec' = NoDec
    /\ UNCHANGED <<built, cfgAge, rc, errs, warned, clock, store, lastSet, cap, pub, lg>>

\* time passes
Tick ==
    /\ Serving
    /\ clock < MaxTime
    /\ clock' = clock + 1
    /\ dec' = NoDec
    /\ UNCHANGED <<built, cfgAge, rc, errs, warned, store, lastSet, req, cap, pub, lg>>

\* the TTL store removes an item on its own (its ttl ran out, or the cache
\* evicted it); the core cannot tell when, and an item past its ttl can still
\* be returned by a get until the store has removed it
Evict(k) ==
    /\ store[k].present
    /\ store' = [store EXCEPT ![k] = NoItem]
    /\ lastSet' = [lastSet EXCEPT ![k] = 0]
    /\ dec' = NoDec
    /\ UNCHANGED <<built, cfgAge, rc, errs, warned, clock, req, cap, pub, lg>>

Construct ==
    \E c \in {"nil", "ttl"}, mn \in Durations, mx \in Durations :
        NewRouteCache(c, [Min |-> mn, Max |-> mx])

DoLookup ==
    \E r \in SeqReqs, k \in Keys, m \in ClientAges, f \in ClientAges, g \in BOOLEAN :
        Lookup(r, k, m, f, g)

DoExec == \E r \in SeqReqs, p \in Progs, n \in SeqNanos : Exec(r, p, n)

DoSave == \E r \in SeqReqs, g \in BOOLEAN : Save(r, g)

DoRespond ==
    \E r \in SeqReqs, ok \in BOOLEAN :
        \E before \in SUBSET Settable(req[r].rsp.Header) : Respond(r, before, ok)

DoFinish == \E r \in SeqReqs : Finish(r)

DoEvict == \E k \in Keys : Evict(k)

\* requests served one after the other
Next ==
    \/ Construct
    \/ DoLookup
    \/ DoExec
    \/ DoSave
    \/ DoRespond
    \/ DoFinish
    \/ Tick
    \/ DoEvict

Spec == Init /\ [][Next]_vars

\* The cache processor takes any executor.  One that fails: it yields a
\* response carrying an error; the processor stores nothing and returns the
\* error to Handler
ExecFail(r) ==
    /\ req[r].pc = "exec"
    /\ req' = [req EXCEPT ![r] =
                 [@ EXCEPT !.pc = "respond", !.calls = @ + 1,
                           !.rsp = [NoResponse EXCEPT !.Err = "exec failed"]]]
    /\ dec' = NoDec
    /\ UNCHANGED <<built, cfgAge, rc, errs, warned, clock, store, lastSet, cap, pub, lg>>

DoExecFail == \E r \in SeqReqs : ExecFail(r)

\* sequential requests against a processor whose executor can fail
NextEngine ==
    \/ Construct
    \/ DoLookup
    \/ DoExec
    \/ DoExecFail
    \/ DoSave
    \/ DoRespond
    \/ DoFinish
    \/ Tick
    \/ DoEvict

SpecEngine == Init /\ [][NextEngine]_vars

\* Concurrent requests for one key on one route: any number of the slots in
\* Reqs are in flight at once, their steps interleave freely
ConcKey == "k1"

ConcConstruct == NewRouteCache("ttl", [Min |-> 0, Max |-> MaxDur])

ConcLookup == \E r \in Reqs : Lookup(r, ConcKey, NoDirective, NoDirective, FALSE)

ConcExec == \E r \in Reqs, p \in Progs, n \in Nanos : Exec(r, p, n)

ConcSave == \E r \in Reqs : Save(r, FALSE)

ConcRespond ==
    \E r \in Reqs :
        \E before \in SUBSET Settable(req[r].rsp.Header) : Respond(r, before, TRUE)

ConcFinish == \E r \in Reqs : Finish(r)

NextConc ==
    \/ ConcConstruct
    \/ ConcLookup
    \/ ConcExec
    \/ ConcSave
    \/ ConcRespond
    \/ ConcFinish
    \/ Tick

SpecConc == Init /\ [][NextConc]_vars

\* The execution of a MISS followed call by call.  The executor creates the
\* adapter
CapNew ==
    /\ \E r \in SeqReqs : req[r].pc = "exec"
    /\ cap.pc # "run"
    /\ cap' = [NoCap EXCEPT !.pc = "run"]
    /\ UNCHANGED <<cacheVars, pub, lg>>

\* the wrapped handler calls Write(p)
CapWrite(p) ==
    /\ cap.pc = "run"
    /\ cap.n < MaxCalls
    /\ cap' = [cap EXCEPT !.rw = Write(@, p), !.writes = Append(@, p),
                          !.n = @ + 1]
    /\ UNCHANGED <<cacheVars, pub, lg>>

\* the wrapped handler calls WriteHeader(code)
CapWriteHeader(code) ==
    /\ cap.pc = "run"
    /\ cap.n < MaxCalls
    /\ cap' = [cap EXCEPT !.rw = WriteHeader(@, code), !.codes = Append(@, code),
                          !.n = @ + 1]
    /\ UNCHANGED <<cacheVars, pub, lg>>

\* the wrapped handler fills Header() with h
CapSetHeader(h) ==
    /\ cap.pc = "run"
    /\ cap.n < MaxCalls
    /\ cap' = [cap EXCEPT !.rw = SetHeader(@, h), !.n = @ + 1]
    /\ UNCHANGED <<cacheVars, pub, lg>>

\* the wrapped handler has returned: the executor reads the adapter and
\* builds the response, the cache processor goes on with it
CapReadAll(r, nano) ==
    /\ cap.pc = "run"
    /\ req[r].pc = "exec"
    /\ LET rsp == snapshot(cap.rw, req[r].now, req[r].key, nano)
       IN  req' = [req EXCEPT ![r] =
                     [@ EXCEPT
                        !.pc = IF rsp.Err = "nil" /\ req[r].outcome = "MISS"
                               THEN "save" ELSE "respond",
                        !.rsp = rsp, !.calls = @ + 1,
                        !.output = [body |-> Concat(cap.writes),
                                    header |-> cap.rw.header,
                                    codes |-> cap.codes,
                                    nwrites |-> Len(cap.writes)]]]
    /\ cap' = [cap EXCEPT !.pc = "read", !.err = ReadAll(cap.rw).err]
    /\ dec' = NoDec
    /\ UNCHANGED <<built, cfgAge, rc, errs, warned, clock, store, lastSet, pub, lg>>

CapLookup ==
    \E r \in SeqReqs : Lookup(r, ConcKey, NoDirective, NoDirective, FALSE)

DoCapWrite == \E p \in Chunks : CapWrite(p)

DoCapWriteHeader == \E c \in StatusCodes : CapWriteHeader(c)

DoCapSetHeader == \E h \in CapHeaders : CapSetHeader(h)

DoCapReadAll == \E r \in SeqReqs, n \in SeqNanos : CapReadAll(r, n)

CapSave == \E r \in SeqReqs : Save(r, FALSE)

CapRespond ==
    \E r \in SeqReqs :
        \E before \in SUBSET Settable(req[r].rsp.Header) : Respond(r, before, TRUE)

NextCapture ==
    \/ ConcConstruct
    \/ CapLookup
    \/ CapNew
    \/ DoCapWrite
    \/ DoCapWriteHeader
    \/ DoCapSetHeader
    \/ DoCapReadAll
    \/ CapSave
    \/ CapRespond
    \/ DoFinish
    \/ DoEvict

SpecCapture == Init /\ [][NextCapture]_vars

\* Publisher.Publish, step by step.  The call: the span is started, the
\* start time read
PublishCall(topic) ==
    /\ pub.pc = "idle"
    /\ pub.calls < MaxPublish
    /\ pub' = [pub EXCEPT !.pc = "await", !.topic = topic, !.err = "nil",
                          !.failedAt = None, !.finished = 0, !.observed = 0,
                          !.attempts = 0, !.calls = @ + 1]
    /\ UNCHANGED <<cacheVars, cap, lg>>

\* p.cm.AwaitConnection(ctx)
AwaitConnection(ok) ==
    /\ pub.pc = "await"
    /\ pub' = IF ok THEN [pub EXCEPT !.pc = "inject"]
              ELSE PublishFails(pub, "await", "connection is not up")
    /\ UNCHANGED <<cacheVars, cap, lg>>

\* injectObservabilityHeaders(ctx, pub, sp)
InjectHeaders(ok) ==
    /\ pub.pc = "inject"
    /\ pub' = IF ok THEN [pub EXCEPT !.pc = "publish"]
              ELSE PublishFails(pub, "inject", "failed to inject tracing headers")
    /\ UNCHANGED <<cacheVars, cap, lg>>

\* p.cm.Publish(ctx, pub) and what follows it
BrokerPublish(ok) ==
    /\ pub.pc = "publish"
    /\ LET p == [pub EXCEPT !.attempts = @ + 1]
       IN  pub' = IF ok THEN [observePublish(p, "nil") EXCEPT !.pc = "returned"]
                  ELSE PublishFails(p, "publish", "failed to publish message")
    /\ UNCHANGED <<cacheVars, cap, lg>>

\* the caller has the result of Publish
PublishReturn ==
    /\ pub.pc = "returned"
    /\ pub' = [pub EXCEPT !.pc = "idle"]
    /\ UNCHANGED <<cacheVars, cap, lg>>

DoPublishCall == \E t \in Topics : PublishCall(t)

DoAwaitConnection == \E ok \in BOOLEAN : AwaitConnection(ok)

DoInjectHeaders == \E ok \in BOOLEAN : InjectHeaders(ok)

DoBrokerPublish == \E ok \in BOOLEAN : BrokerPublish(ok)

NextPublish ==
    \/ DoPublishCall
    \/ DoAwaitConnection
    \/ DoInjectHeaders
    \/ DoBrokerPublish
    \/ PublishReturn

SpecPublish == Init /\ [][NextPublish]_vars

\* log.Setup, step by step.  Goroutine g calls Setup(l)
SetupCall(g, l) ==
    /\ lg.proc[g].pc = "idle"
    /\ lg.calls < MaxSetup
    /\ lg' = [lg EXCEPT
                 !.proc[g] = [pc |-> "check", l |-> l, ret |-> None],
                 !.calls = @ + 1,
                 !.begun = IF l # NilLogger THEN Append(@, l) ELSE @,
                 !.overlap = @ \/ (/\ l # NilLogger
                                   /\ \E h \in Procs \ {g} :
                                         /\ lg.proc[h].pc # "idle"
                                         /\ lg.proc[h].l # NilLogger),
                 !.early = IF l # NilLogger /\ ~lg.returned
                           THEN @ \cup {l} ELSE @]
    /\ UNCHANGED <<cacheVars, cap, pub>>

\* if l == nil { return errors.New("logger is nil") }
SetupCheck(g) ==
    /\ lg.proc[g].pc = "check"
    /\ lg' = IF lg.proc[g].l = NilLogger
             THEN [lg EXCEPT !.proc[g].pc = "idle", !.proc[g].ret = ErrNilLogger]
             ELSE [lg EXCEPT !.proc[g].pc = "once"]
    /\ UNCHANGED <<cacheVars, cap, pub>>

\* once.Do(f), the first look at the Once: done already, Do returns and
\* Setup returns nil; else the goroutine goes for the mutex of the Once
OnceDo(g) ==
    /\ lg.proc[g].pc = "once"
    /\ lg' = IF onceDoRuns(lg.done)
             THEN [lg EXCEPT !.proc[g].pc = "lock"]
             ELSE [lg EXCEPT !.proc[g].pc = "idle", !.proc[g].ret = "nil",
                             !.returned = TRUE]
    /\ UNCHANGED <<cacheVars, cap, pub>>

\* once.Do(f): the mutex is taken and the Once looked at again
OnceLock(g) ==
    /\ lg.proc[g].pc = "lock"
    /\ lg.m = 0
    /\ lg' = [lg EXCEPT !.m = g,
                        !.proc[g].pc = IF onceDoRuns(lg.done) THEN "f"
                                       ELSE "unlock"]
    /\ UNCHANGED <<cacheVars, cap, pub>>

\* f: logger = l
OnceF(g) ==
    /\ lg.proc[g].pc = "f"
    /\ lg' = [lg EXCEPT !.logger = lg.proc[g].l, !.proc[g].pc = "store"]
    /\ UNCHANGED <<cacheVars, cap, pub>>

\* once.Do(f): f has returned, the Once is marked done
OnceStore(g) ==
    /\ lg.proc[g].pc = "store"
    /\ lg' = [lg EXCEPT !.done = 1, !.proc[g].pc = "unlock"]
    /\ UNCHANGED <<cacheVars, cap, pub>>

\* once.Do(f): the mutex is released, Do returns and Setup returns nil
OnceUnlock(g) ==
    /\ lg.proc[g].pc = "unlock"
    /\ lg' = [lg EXCEPT !.m = 0, !.proc[g].pc = "idle", !.proc[g].ret = "nil",
                        !.returned = TRUE]
    /\ UNCHANGED <<cacheVars, cap, pub>>

\* what a read of the variable logger can yield: its value; while a
\* goroutine is assigning it, without synchronisation with the reader, the
\* old value, the new one or a mix of the two
LoggerReads ==
    {lg.logger}
        \cup {lg.proc[g].l : g \in {h \in Procs : lg.proc[h].pc = "f"}}
        \cup (IF \E g \in Procs : lg.proc[g].pc = "f" THEN {"torn"} ELSE {})

\* FromContext(ctx), c the logger found in ctx (None: no logger there): the
\* logger of the context, or the global one when there is none or a nil one
FromContext(c, v) ==
    /\ v \in LoggerReads
    /\ lg' = [lg EXCEPT !.seen = IF c \in {None, NilLogger} THEN v ELSE c]
    /\ UNCHANGED <<cacheVars, cap, pub>>

DoSetupCall == \E g \in Procs, l \in Loggers \cup {NilLogger} : SetupCall(g, l)

DoSetupCheck == \E g \in Procs : SetupCheck(g)

DoOnceDo == \E g \in Procs : OnceDo(g)

DoOnceLock == \E g \in Procs : OnceLock(g)

DoOnceF == \E g \in Procs : OnceF(g)

DoOnceStore == \E g \in Procs : OnceStore(g)

DoOnceUnlock == \E g \in Procs : OnceUnlock(g)

DoFromContext ==
    \E c \in {None, NilLogger, "lc"} : \E v \in LoggerReads : FromContext(c, v)

NextLog ==
    \/ DoSetupCall
    \/ DoSetupCheck
    \/ DoOnceDo
    \/ DoOnceLock
    \/ DoOnceF
    \/ DoOnceStore
    \/ DoOnceUnlock
    \/ DoFromContext

SpecLog == Init /\ [][NextLog]_vars


\* ------------------------------------------------------------------ claims

Range(q) == {q[i] : i \in 1 .. Len(q)}

\* the configured bounds in whole seconds, and the disabled policy
RouteMin == cfgAge.Min \div TicksPerSecond
RouteMax == cfgAge.Max \div TicksPerSecond
Disabled == RouteMin = 0 /\ RouteMax = 0

\* C6 as stated: for min > max, NewRouteCache reports an error and returns
\* no RouteCache value
C6_NoCacheProduced ==
    (built /\ cfgAge.Min > cfgAge.Max) => (errs # <<>> /\ rc.isNil)

\* C6 amended: for min > max, NewRouteCache reports the min/max configuration
\* error; it still returns a RouteCache value, holding the store it was given
\* and the bounds in whole seconds, next to the error list
C6_ErrorReportedCacheReturned ==
    (built /\ cfgAge.Min > cfgAge.Max) =>
        /\ ErrMinMax \in Range(errs)
        /\ ~rc.isNil
        /\ rc.age = [min |-> RouteMin, max |-> RouteMax]

\* C6's case: construction with min > max and a store
C6_Witness == built /\ cfgAge.Min > cfgAge.Max /\ rc.cache = "ttl"

\* C7: the error list holds one error for a nil store and one for min > max:
\* both when both hold, one when one holds, none when the store is present
\* and min <= max (min = max and min = max = 0 included; 0/0 only warns)
C7_AllErrorsReported ==
    built =>
        /\ (ErrNilCache \in Range(errs)) <=> (rc.cache = "nil")
        /\ (ErrMinMax \in Range(errs)) <=> (cfgAge.Min > cfgAge.Max)
        /\ Len(errs) = (IF rc.cache = "nil" THEN 1 ELSE 0)
                        + (IF cfgAge.Min > cfgAge.Max THEN 1 ELSE 0)
        /\ (cfgAge.Min = 0 /\ cfgAge.Max = 0 /\ rc.cache = "ttl")
               => (errs = <<>> /\ warned)

\* C7's case: both problems at once, both reported
C7_Witness == built /\ Len(errs) = 2

\* the first value of every header key, as Handler copies them
FirstValues(h) == [k \in DOMAIN h |-> h[k][1]]

\* the effective bounds of a request with directives maxAge and minFresh,
\* from the configured bounds
EffMaxAge(maxAge) ==
    IF maxAge = NoDirective THEN RouteMax
    ELSE Max2(RouteMin, Min2(RouteMax, maxAge))
EffMinFresh(minFresh) ==
    IF minFresh = NoDirective THEN 0 ELSE Min2(minFresh, RouteMax - RouteMin)

Decided == dec.r # 0

\* C1: a request whose key has no entry in the store at lookup time, on a
\* route that is not disabled, is a MISS, and the wrapped handler is invoked
\* exactly once for it: not before the executor runs, once from then on
C1_MissInvokesOnce ==
    \A r \in Reqs :
        (req[r].pc # "idle" /\ ~req[r].found /\ ~Disabled) =>
            /\ req[r].outcome = "MISS"
            /\ req[r].calls = IF req[r].pc = "exec" THEN 0 ELSE 1

\* C1's case: a finished MISS on a key without entry while the other key has one
C1_Witness ==
    \E r \in Reqs :
        /\ req[r].pc = "done" /\ ~req[r].found /\ ~Disabled
        /\ req[r].outcome = "MISS" /\ req[r].calls = 1
        /\ \E k \in Keys \ {req[r].key} : store[k].present

\* C2 as stated: a request that finds an entry with age <= effectiveMaxAge and
\* effectiveMaxAge - age >= effectiveMinFresh is a HIT; on a HIT the handler is
\* not invoked, the store is not written, and the client is written the
\* stored entry's headers and body
C2_HitServesStored ==
    /\ (Decided /\ dec.found /\ dec.age <= EffMaxAge(dec.maxAge)
            /\ EffMaxAge(dec.maxAge) - dec.age >= EffMinFresh(dec.minFresh))
         => dec.outcome = "HIT"
    /\ \A r \in Reqs :
         req[r].outcome = "HIT" =>
            /\ req[r].calls = 0
            /\ req[r].sets = 0
            /\ (req[r].pc = "done" /\ ~req[r].sinkFault) =>
                  /\ req[r].result = "ok"
                  /\ req[r].client.written
                  /\ req[r].client.body = req[r].rsp.Bytes
                  /\ req[r].client.header = FirstValues(req[r].rsp.Header)

C3_FloorWitness ==
    /\ Decided /\ dec.found /\ dec.maxAge # NoDirective
    /\ dec.maxAge < RouteMin /\ dec.age = RouteMin /\ dec.outcome = "HIT"

\* C4: a stored entry older than the configured maximum age is never served:
\* the lookup that finds it decides MISS whatever the directives, and every
\* entry served on a HIT is at most the configured maximum old
C4_NeverServedBeyondMax ==
    /\ (Decided /\ dec.found /\ dec.age * TicksPerSecond > cfgAge.Max)
          => dec.outcome = "MISS"
    /\ \A r \in Reqs :
          req[r].outcome = "HIT" =>
             (req[r].now - req[r].rsp.LastValid) * TicksPerSecond <= cfgAge.Max

\* C4's case: an entry older than the route's maximum, a max-age that would
\* accept it, a MISS
C4_Witness ==
    /\ Decided /\ dec.found /\ dec.age * TicksPerSecond > cfgAge.Max
    /\ dec.maxAge # NoDirective /\ dec.maxAge >= dec.age
    /\ dec.outcome = "MISS"

\* C5 as stated: with min = max = 0 every request is BYPASS, the handler runs
\* once for it, its output is what the client is written, and the store is
\* never written
C5_DisabledBypass ==
    (built /\ cfgAge.Min = 0 /\ cfgAge.Max = 0) =>
        /\ \A k \in Keys : ~store[k].present
        /\ \A r \in Reqs :
             req[r].pc # "idle" =>
                /\ req[r].outcome = "BYPASS"
                /\ req[r].sets = 0
                /\ (req[r].pc = "done" /\ ~req[r].sinkFault) =>
                      /\ req[r].calls = 1
                      /\ req[r].result = "ok"
                      /\ req[r].client.body = req[r].output.body
                      /\ req[r].client.header = FirstValues(req[r].output.header)

\* C9 as stated: a request that met a failed get is a MISS served from a fresh
\* execution, a request that met a failed set is still served; in both cases
\* Handler returns no error and the client is written the handler's output
C9_StoreFaultInvisible ==
    \A r \in Reqs :
        (req[r].pc = "done" /\ (req[r].getFault \/ req[r].setFault)
            /\ ~req[r].sinkFault) =>
            /\ (req[r].getFault /\ ~Disabled) => req[r].outcome = "MISS"
            /\ req[r].calls = 1
            /\ req[r].result = "ok"
            /\ req[r].client.body = req[r].output.body
            /\ req[r].client.header = FirstValues(req[r].output.header)

\* the executor yielded an error for request r
Failed(r) == req[r].rsp.Err # "nil"

\* C8: when the executor yields an error, Handler returns an error, the
\* client's writer is left untouched (no header, no body), the request writes
\* nothing to the store, and no step of the failing request changes the store,
\* so an entry stored under its key stays as it was
C8_ErrorWritesNothing ==
    /\ [](\A r \in Reqs :
            Failed(r) =>
               /\ req[r].sets = 0
               /\ req[r].client = NoClient
               /\ req[r].pc = "done" => req[r].result = "error")
    /\ [][\A r \in Reqs :
            ((Failed(r) \/ Failed(r)') /\ req[r]' # req[r]) => store' = store]_vars

\* C8's case: a failed execution is over and the entry found at lookup is
\* still in the store
C8_Witness ==
    \E r \in Reqs :
        /\ req[r].pc = "done" /\ Failed(r) /\ req[r].result = "error"
        /\ req[r].found /\ store[req[r].key].present

\* both requests found no entry for the key, ran the handler and wrote the store
BothMissed ==
    \A r \in Reqs :
        /\ req[r].pc = "done" /\ req[r].key = ConcKey
        /\ req[r].outcome = "MISS" /\ ~req[r].found
        /\ req[r].calls = 1 /\ req[r].sets = 1

\* C10 as stated: two requests for the same key that both looked up before
\* either stored are both MISS, both invoke the handler and both write the
\* store; once both are over the store holds the whole entry of the later
\* write, and each client has been written the output of its own execution
C10_ConcurrentMisses ==
    BothMissed =>
        /\ lastSet[ConcKey] \in Reqs
        /\ store[ConcKey].present
        /\ store[ConcKey].val = req[lastSet[ConcKey]].rsp
        /\ \A r \in Reqs :
              /\ req[r].result = "ok"
              /\ req[r].client.body = req[r].output.body
              /\ req[r].client.header = FirstValues(req[r].output.header)

\* the case of C10: both requests missed and wrote, with different entries
C10_Witness ==
    /\ BothMissed
    /\ \E r \in Reqs : req[r].rsp # store[ConcKey].val

\* C11 as stated: whatever Write calls the handler made on the capture
\* adapter, the body ReadAll returned to the executor is the concatenation, in
\* order, of all bytes written, and so is the body stored for the key and the
\* body written to the client of that execution
C11_BodyIsAllWrites ==
    \A r \in Reqs :
        (req[r].calls = 1 /\ req[r].rsp.Err = "nil") =>
            /\ req[r].rsp.Bytes = req[r].output.body
            /\ (lastSet[req[r].key] = r /\ req[r].outcome = "MISS") =>
                  store[req[r].key].val.Bytes = req[r].output.body
            /\ (req[r].pc = "done" /\ req[r].result = "ok") =>
                  req[r].client.body = req[r].output.body

\* C12 as stated: the status the handler set through WriteHeader is the
\* status the client receives when the response of that execution is served.
\* (The response the executor builds, which is also the stored entry, has no
\* status field, and Handler never calls w.WriteHeader.)
C12_StatusReplayed ==
    \A r \in Reqs :
        (/\ req[r].pc = "done" /\ req[r].result = "ok"
         /\ req[r].calls = 1 /\ req[r].output.codes # <<>>) =>
            req[r].client.status = Last(req[r].output.codes)

\* request r ran the handler and has the response of that execution
Executed(r) == req[r].calls = 1 /\ req[r].rsp.Err = "nil"

\* C13 as stated: two successful executions for the same key at different
\* generation times (here: in different seconds) yield different ETags; in
\* particular the entry a MISS is about to store has another ETag than the
\* entry an earlier MISS stored under the key
C13_ETagsDiffer ==
    /\ \A r, q \in Reqs :
          (/\ Executed(r) /\ Executed(q) /\ req[r].key = req[q].key
           /\ req[r].rsp.LastValid # req[q].rsp.LastValid) =>
              req[r].rsp.Etag # req[q].rsp.Etag
    /\ \A r \in Reqs :
          (/\ Executed(r) /\ req[r].pc = "save" /\ store[req[r].key].present
           /\ store[req[r].key].val.LastValid # req[r].rsp.LastValid) =>
              store[req[r].key].val.Etag # req[r].rsp.Etag

\* the core's step for request r: the request record changes
CoreStep(r) == req[r]' # req[r]

\* C14: a MISS with a successful execution writes the store exactly once: the
\* write is under the request's own key, with the route's maximum age (whole
\* seconds) as ttl, and puts there the whole entry the executor built, stamped
\* with the generation time of the request; the entries of all other keys stay
\* as they are.  No other step of a request changes the store, so no entry is
\* modified in place and the core deletes nothing; a HIT or BYPASS writes
\* nothing
C14_SingleWholeWrite ==
    /\ [](\A r \in Reqs :
            /\ req[r].sets <= 1
            /\ req[r].outcome \in {"HIT", "BYPASS"} => req[r].sets = 0
            /\ (/\ req[r].outcome = "MISS" /\ req[r].pc \in {"respond", "done"}
                /\ ~req[r].setFault) => req[r].sets = 1)
    /\ [][\A r \in Reqs :
            CoreStep(r) =>
               IF req[r].pc = "save" /\ ~req[r]'.setFault
               THEN /\ req[r].outcome = "MISS" /\ Executed(r)
                    /\ store' = [store EXCEPT ![req[r].key] =
                                    [present |-> TRUE, val |-> req[r].rsp,
                                     ttl |-> RouteMax]]
                    /\ req[r].rsp.LastValid = req[r].now
                    /\ req[r]'.sets = req[r].sets + 1
               ELSE store' = store /\ req[r]'.sets <= req[r].sets]_vars

\* C14's case: a MISS has replaced the older entry of its key, at a later
\* time, while the other key holds an entry
C14_Witness ==
    \E r \in Reqs :
        /\ req[r].pc = "respond" /\ req[r].outcome = "MISS" /\ req[r].sets = 1
        /\ req[r].found /\ req[r].now > 0
        /\ store[req[r].key].val = req[r].rsp
        /\ \E k \in Keys \ {req[r].key} : store[k].present

\* a Publish call is between its first and its last step
Publishing == pub.pc \in {"await", "inject", "publish"}

\* C15: every Publish call finishes its span exactly once and records exactly
\* one duration: none while the call is under way, one each when it has
\* returned, on each of the four paths, so that finished spans and
\* observations number the calls made.  The observation carries the topic and
\* the label success = "true" exactly when Publish returns no error, the span
\* the error flag accordingly; cm.Publish is called at most once, and not at
\* all when awaiting the connection or injecting the headers failed
C15_ObservedOnce ==
    /\ Publishing =>
          /\ pub.finished = 0 /\ pub.observed = 0
          /\ Len(pub.spans) = pub.calls - 1 /\ Len(pub.hist) = pub.calls - 1
    /\ (~Publishing /\ pub.calls > 0) =>
          /\ pub.finished = 1 /\ pub.observed = 1
          /\ Len(pub.spans) = pub.calls /\ Len(pub.hist) = pub.calls
          /\ Last(pub.hist).topic = pub.topic
          /\ (Last(pub.hist).success = "true") <=> (pub.err = "nil")
          /\ (Last(pub.hist).success = "false") <=> (pub.err # "nil")
          /\ Last(pub.spans).error <=> (pub.err # "nil")
          /\ (pub.err = "nil") <=> (pub.failedAt = None)
          /\ pub.attempts = IF pub.failedAt \in {"await", "inject"} THEN 0 ELSE 1
    /\ pub.attempts <= 1
    /\ pub.pc \in {"await", "inject"} => pub.attempts = 0

\* C15's case: the last of MaxPublish calls has returned after failing to
\* inject the headers, an earlier one succeeded
C15_Witness ==
    /\ pub.pc = "returned" /\ pub.failedAt = "inject" /\ pub.calls = MaxPublish
    /\ \E i \in 1 .. Len(pub.hist) : pub.hist[i].success = "true"
    /\ Len(pub.hist) = pub.calls

\* C16 as stated: when the handler has returned and the executor reads the
\* adapter, the status the adapter recorded is 200 if the handler never called
\* WriteHeader, else the status of its last WriteHeader call
C16_StatusRecorded ==
    cap.pc = "read" =>
        cap.rw.statusCode = IF cap.codes = <<>> THEN StatusOK ELSE Last(cap.codes)

\* C17 as stated: whenever the cache processor returned a response without
\* error, Handler does not fail on its headers, and the client's header holds
\* every key of the response, set to the first value recorded for it where
\* there is one
C17_EveryKeyFirstValue ==
    \A r \in Reqs :
        (req[r].pc = "done" /\ req[r].rsp.Err = "nil") =>
            /\ req[r].result # "panic"
            /\ DOMAIN req[r].client.header = DOMAIN req[r].rsp.Header
            /\ \A k \in Settable(req[r].rsp.Header) :
                  req[r].client.header[k] = req[r].rsp.Header[k][1]

\* request r ran a handler that made no Write call and set no header
WroteNothing(r) ==
    /\ req[r].calls = 1
    /\ req[r].output.nwrites = 0 /\ req[r].output.header = EmptyHeader

\* C18: when the handler writes nothing, the executor's response has no
\* error, an empty body and an empty header; it goes the way of every other
\* response: on a MISS it is stored (unless the store fails the set), and
\* Handler writes it to the client without error (unless the connection
\* fails), with an empty body and no header
C18_NothingWritten ==
    \A r \in Reqs :
        WroteNothing(r) =>
            /\ req[r].rsp.Err = "nil"
            /\ req[r].rsp.Bytes = <<>> /\ req[r].rsp.Header = EmptyHeader
            /\ req[r].rsp.LastValid = req[r].now
            /\ req[r].pc = "save" <=> (req[r].outcome = "MISS" /\ req[r].sets = 0
                                        /\ ~req[r].setFault)
            /\ (req[r].pc \in {"respond", "done"} /\ req[r].outcome = "MISS"
                    /\ ~req[r].setFault) =>
                  /\ req[r].sets = 1
                  /\ lastSet[req[r].key] = r =>
                        store[req[r].key].val = req[r].rsp
            /\ (req[r].pc = "done" /\ ~req[r].sinkFault) =>
                  /\ req[r].result = "ok"
                  /\ req[r].client.written
                  /\ req[r].client.body = <<>>
                  /\ req[r].client.header = EmptyHeader

\* C18's case: a MISS whose handler wrote nothing is over, its empty entry is
\* in the store and the client has been served
C18_Witness ==
    \E r \in Reqs :
        /\ WroteNothing(r) /\ req[r].pc = "done" /\ req[r].outcome = "MISS"
        /\ req[r].result = "ok" /\ req[r].client.written
        /\ store[req[r].key].present
        /\ store[req[r].key].val = req[r].rsp

\* C19 as stated: for a policy with min <= max, NewRouteCache logs the
\* disabled-cache warning exactly when the bounds it keeps, in whole seconds,
\* are both 0
C19_WarnedIffDisabled ==
    (built /\ cfgAge.Min <= cfgAge.Max) =>
        (warned <=> (rc.age.min = 0 /\ rc.age.max = 0))

\* C20: whatever calls the handler made on the fresh adapter, the executor's
\* single ReadAll reports no error; so no response of the executor carries an
\* error, no request has another outcome than HIT, MISS or BYPASS, and Handler
\* never returns the processor's error
C20_ReadAllNeverFails ==
    /\ cap.err = "nil"
    /\ cap.pc = "read" =>
          /\ ReadAll(cap.rw).err = "nil"
          /\ Len(ReadAll(cap.rw).b) = cap.rw.len
          /\ cap.rw.len <= Len(cap.rw.buffer)
    /\ \A r \in Reqs :
          /\ req[r].rsp.Err = "nil"
          /\ req[r].outcome \in {None, "HIT", "MISS", "BYPASS"}
          /\ req[r].result # "error"

\* C20's case: the handler wrote a chunk, then an empty one, then a longer
\* one, the executor has read the adapter and the request is over
C20_Witness ==
    /\ cap.pc = "read" /\ Len(cap.writes) = MaxCalls
    /\ cap.writes[1] # <<>> /\ cap.writes[2] = <<>>
    /\ Len(cap.writes[3]) > Len(cap.writes[1])
    /\ \E r \in Reqs : req[r].pc = "done" /\ req[r].calls = 1

\* goroutine g takes a step of its Setup call
SetupStep(g) == lg.proc[g]' # lg.proc[g]

\* C21: the global logger is the fmt logger until a Setup call with a non-nil
\* logger assigns its argument, and it is assigned at most once: it is the
\* argument of a non-nil call that began before any non-nil call had
\* returned, and from the first such return on it never changes.  For calls
\* made one after the other it is the argument of the first non-nil call.
\* Every non-nil call returns nil, also those that leave the logger as it is;
\* Setup(nil) returns the error and none of its steps touches the logger or
\* the Once, so a later non-nil call still sets the logger
C21_FirstSetupWins ==
    /\ [](/\ lg.logger \in {FmtLogger} \cup lg.early
          /\ lg.begun = <<>> => lg.logger = FmtLogger
          /\ lg.returned => (lg.logger \in lg.early /\ lg.done = 1)
          /\ (~lg.overlap /\ lg.returned) => lg.logger = lg.begun[1]
          /\ \A g \in Procs :
                /\ lg.proc[g].l = NilLogger => lg.proc[g].pc \in {"idle", "check"}
                /\ (lg.proc[g].pc = "idle" /\ lg.proc[g].ret # None) =>
                      lg.proc[g].ret = IF lg.proc[g].l = NilLogger
                                       THEN ErrNilLogger ELSE "nil")
    /\ [][/\ lg.logger' # lg.logger =>
                (lg.logger = FmtLogger /\ lg.done = 0 /\ ~lg.returned)
          /\ \A g \in Procs :
                (SetupStep(g) /\ lg.proc[g]'.l = NilLogger) =>
                    (/\ lg.logger' = lg.logger /\ lg.done' = lg.done
                     /\ lg.m' = lg.m)]_vars

\* C21's case: a Setup(nil) and two overlapping calls with different loggers
\* are over; the call that began later reached the Once first and its
\* argument is the logger
C21_Witness ==
    /\ \A g \in Procs : lg.proc[g].pc = "idle" /\ lg.proc[g].ret = "nil"
    /\ lg.calls = 3 /\ Len(lg.begun) = 2 /\ lg.begun[1] # lg.begun[2]
    /\ lg.logger = lg.begun[2] /\ lg.done = 1

\* calls one after the other: a Setup(nil), then two calls with different
\* loggers; the logger is the argument of the first of the two
C21_SequentialWitness ==
    /\ \A g \in Procs : lg.proc[g].pc = "idle"
    /\ ~lg.overlap /\ lg.calls = 3 /\ Len(lg.begun) = 2
    /\ lg.begun[1] # lg.begun[2] /\ lg.logger = lg.begun[1]

====
